---- MODULE Spec2Model ----
(***************************************************************************)
(* Model of src/plugins/exec/exec.c (WeeChat "exec" plugin): the list of   *)
(* executed commands (exec_cmds / last_exec_cmd / exec_cmds_count), the    *)
(* lookup by id, the process callback, the end of a command and the purge  *)
(* timer.                                                                  *)
(*                                                                         *)
(* Pointers are addresses 1..MaxAddr, NULL is 0.  C strings are sequences  *)
(* of one-character strings; a NULL char* is NullStr.  The memory of a     *)
(* freed record is indeterminate: the model keeps FreedCmd there and every *)
(* action that reads freed memory draws what it reads nondeterministically.*)
(***************************************************************************)
EXTENDS Integers, Sequences, FiniteSets, TLC

\* ------------------------------------------------------------- bounds
MaxAddr == 4

MaxFindAddr == 2

MaxRunAddr == 1

MaxNumber == 3

MaxTimers == 2

MaxOut == 4

\* -------------------------------------------------- program constants
NULL == 0

WEECHAT_HOOK_PROCESS_RUNNING == -1

WEECHAT_HOOK_PROCESS_ERROR == -2

NotFinished == -1

Addr == 1 .. MaxAddr

Ptr == Addr \cup {NULL}

NullStr == <<"(null)">>

Digits == <<"0", "1", "2", "3", "4", "5", "6", "7", "8", "9">>

IsDigit(c) == \E i \in 1 .. 10 : Digits[i] = c

DigitVal(c) == (CHOOSE i \in 1 .. 10 : Digits[i] = c) - 1

VARIABLES
  mem,              \* Addr -> struct t_exec_cmd (FreedCmd when not allocated)
  alloc,            \* addresses malloc has handed out and free has not taken back
  exec_cmds,        \* first executed command
  last_exec_cmd,    \* last executed command
  exec_cmds_count,  \* number of executed commands
  timers,           \* Addr -> pending one-shot purge timers with that data:
                    \* fresh (the command they were hooked for is still in the
                    \* list) and stale (it has been removed since)
  debug,            \* weechat_exec_plugin->debug
  purge_delay,      \* option exec.command.purge_delay (seconds, negative: never)
  buffers,          \* full names of the buffers that exist
  emitted,          \* calls to the host made by the last handler, in order
  call,             \* the last handler run, its arguments and return value
  status            \* "running", "undefined" (after undefined behaviour), "aborted"

vars == <<mem, alloc, exec_cmds, last_exec_cmd, exec_cmds_count, timers,
          debug, purge_delay, buffers, emitted, call, status>>

\* A freed (or never allocated) record: its content is indeterminate.
FreedCmd == [freed |-> TRUE]

\* ------------------------------------------------------------ strings
\* printf ("%d", n)
RECURSIVE NatToStr(_)
NatToStr(n) ==
  IF n < 10 THEN <<Digits[n + 1]>>
  ELSE NatToStr(n \div 10) \o <<Digits[(n % 10) + 1]>>

IntToStr(n) == IF n < 0 THEN <<"-">> \o NatToStr(0 - n) ELSE NatToStr(n)

\* index of the first character of s at or after i that is not a space
RECURSIVE SkipSpaces(_, _)
SkipSpaces(s, i) ==
  IF i <= Len(s) /\ s[i] = " " THEN SkipSpaces(s, i + 1) ELSE i

\* [value, end]: the digits of s from i on, accumulated in base 10
RECURSIVE ReadDigits(_, _, _)
ReadDigits(s, i, acc) ==
  IF i <= Len(s) /\ IsDigit(s[i])
  THEN ReadDigits(s, i + 1, (acc * 10) + DigitVal(s[i]))
  ELSE [value |-> acc, end |-> i]

\* strtol (s, &error, 10): value, and the index in s that error points to
\* (Len(s) + 1 is the terminating null).  Without any digit the value is 0
\* and error points to the start of s.
Strtol(s) ==
  LET i == SkipSpaces(s, 1)
      neg == i <= Len(s) /\ s[i] = "-"
      j == IF i <= Len(s) /\ s[i] \in {"-", "+"} THEN i + 1 ELSE i
      d == ReadDigits(s, j, 0)
  IN IF d.end = j THEN [value |-> 0, end |-> 1]
     ELSE [value |-> IF neg THEN 0 - d.value ELSE d.value, end |-> d.end]

\* ------------------------------------------------------- list helpers
IsFreed(m, a) == m[a] = FreedCmd

\* the records met following next_cmd from a, at most fuel of them; the
\* walk ends at a freed record, whose next_cmd is indeterminate
RECURSIVE Walk(_, _, _)
Walk(m, a, fuel) ==
  IF a = NULL \/ fuel = 0 THEN <<>>
  ELSE IF IsFreed(m, a) THEN <<a>>
  ELSE <<a>> \o Walk(m, m[a].next_cmd, fuel - 1)

\* the records met following prev_cmd from a, at most fuel of them
RECURSIVE WalkBack(_, _, _)
WalkBack(m, a, fuel) ==
  IF a = NULL \/ fuel = 0 THEN <<>>
  ELSE IF IsFreed(m, a) THEN <<a>>
  ELSE <<a>> \o WalkBack(m, m[a].prev_cmd, fuel - 1)

Forward == Walk(mem, exec_cmds, MaxAddr + 1)

Backward == WalkBack(mem, last_exec_cmd, MaxAddr + 1)

Reverse(s) == [i \in 1 .. Len(s) |-> s[Len(s) + 1 - i]]

Range(s) == {s[i] : i \in 1 .. Len(s)}

Live == Range(Forward)

Numbers == [i \in 1 .. Len(Forward) |-> mem[Forward[i]].number]

\* the smallest natural number that is not in S
Mex(S) == CHOOSE n \in 0 .. Cardinality(S) :
            n \notin S /\ \A k \in 0 .. n - 1 : k \in S

Consecutive(s) == \A i \in 1 .. Len(s) - 1 : s[i + 1] = s[i] + 1

Increasing(s) == \A i \in 1 .. Len(s) - 1 : s[i + 1] > s[i]

\* --------------------------------------------------------- exec_add
\* "find first available number"
RECURSIVE FirstGap(_, _, _)
FirstGap(m, ptr, dflt) ==
  IF ptr = NULL THEN dflt
  ELSE IF m[ptr].prev_cmd # NULL
          /\ m[ptr].number > m[m[ptr].prev_cmd].number + 1
       THEN m[m[ptr].prev_cmd].number + 1
       ELSE FirstGap(m, m[ptr].next_cmd, dflt)

\* exec_add that never reuses a number
NewNumberAfterLast ==
  IF last_exec_cmd # NULL THEN mem[last_exec_cmd].number + 1 ELSE 0

NewNumber ==
  FirstGap(mem, exec_cmds,
           IF last_exec_cmd # NULL THEN mem[last_exec_cmd].number + 1 ELSE 0)

\* the record exec_add builds; exec_add leaves color uninitialized
NewCmd(number) ==
  [number |-> number, name |-> NullStr, hook |-> NULL, command |-> NullStr,
   pid |-> 0, detached |-> 0, start_time |-> 1, end_time |-> 0,
   output_to_buffer |-> 0, buffer_full_name |-> NullStr, line_numbers |-> 0,
   display_rc |-> 0, out_size |-> 0, out |-> NullStr, err_size |-> 0,
   err |-> NullStr, return_code |-> NotFinished, pipe_command |-> NullStr,
   hsignal |-> NullStr, color |-> "uninitialized",
   prev_cmd |-> last_exec_cmd, next_cmd |-> NULL]

Colors == {"ansi", "decode", "strip"}

NoCall == [op |-> "none"]

\* the handler before this one, when it was an exec_free of a command that
\* was neither the head nor the tail
LastFree == IF call.op = "exec_free" /\ call.middle THEN call ELSE NoCall

\* the record of a call of exec_add: what it returned, and the list it found
\* (its tail, the smallest number not in use, the exec_free right before)
AddCall(ret) ==
  [op |-> "exec_add", ret |-> ret, tail |-> last_exec_cmd,
   unused |-> Mex(Range(Numbers)), freed |-> LastFree]

\* exec_add (): malloc returns any address of the pool not in use, or NULL
ExecAdd(pool) ==
  /\ status = "running"
  /\ NewNumber <= MaxNumber
  /\ \E new \in (pool \ alloc) \cup {NULL} :
       IF new = NULL
       THEN /\ UNCHANGED <<mem, alloc, exec_cmds, last_exec_cmd, exec_cmds_count>>
            /\ call' = AddCall(NULL)
       ELSE /\ mem' = IF exec_cmds = NULL
                      THEN [mem EXCEPT ![new] = NewCmd(NewNumber)]
                      ELSE [mem EXCEPT ![new] = NewCmd(NewNumber),
                                       ![last_exec_cmd].next_cmd = new]
            /\ alloc' = alloc \cup {new}
            /\ exec_cmds' = IF exec_cmds = NULL THEN new ELSE exec_cmds
            /\ last_exec_cmd' = new
            /\ exec_cmds_count' = exec_cmds_count + 1
            /\ call' = AddCall(new)
  /\ emitted' = <<>>
  /\ UNCHANGED <<timers, debug, purge_delay, buffers, status>>

\* ------------------------------------------------------------ timers
NoTimers == [fresh |-> 0, stale |-> 0]

\* the timers hooked for the commands at the addresses of S no longer have
\* their command: exec_free does not unhook them
Orphaned(ts, S) ==
  [a \in Addr |->
     IF a \in S THEN [fresh |-> 0, stale |-> ts[a].fresh + ts[a].stale]
     ELSE ts[a]]

\* -------------------------------------------------------- exec_free
Registry ==
  [mem |-> mem, alloc |-> alloc, exec_cmds |-> exec_cmds,
   last_exec_cmd |-> last_exec_cmd, exec_cmds_count |-> exec_cmds_count]

\* a store through pointer p: it changes a record only if p is allocated
\* (a store into freed memory changes indeterminate content only)
StoreNext(m, al, p, v) ==
  IF p # NULL /\ p \in al THEN [m EXCEPT ![p].next_cmd = v] ELSE m

StorePrev(m, al, p, v) ==
  IF p # NULL /\ p \in al THEN [m EXCEPT ![p].prev_cmd = v] ELSE m

\* exec_free that does not update last_exec_cmd
exec_free_keeps_tail(R, a, prev, next) ==
  LET m1 == StoreNext(R.mem, R.alloc, prev, next)
      m2 == StorePrev(m1, R.alloc, next, prev)
  IN [mem |-> [m2 EXCEPT ![a] = FreedCmd],
      alloc |-> R.alloc \ {a},
      exec_cmds |-> IF R.exec_cmds = a THEN next ELSE R.exec_cmds,
      last_exec_cmd |-> R.last_exec_cmd,
      exec_cmds_count |-> R.exec_cmds_count - 1]

\* exec_free without exec_cmds_count--
exec_free_keeps_count(R, a, prev, next) ==
  LET m1 == StoreNext(R.mem, R.alloc, prev, next)
      m2 == StorePrev(m1, R.alloc, next, prev)
  IN [mem |-> [m2 EXCEPT ![a] = FreedCmd],
      alloc |-> R.alloc \ {a},
      exec_cmds |-> IF R.exec_cmds = a THEN next ELSE R.exec_cmds,
      last_exec_cmd |-> IF R.last_exec_cmd = a THEN prev ELSE R.last_exec_cmd,
      exec_cmds_count |-> R.exec_cmds_count]

\* exec_free (a) on registry R, where prev and next are the values read
\* from a->prev_cmd and a->next_cmd
exec_free(R, a, prev, next) ==
  LET m1 == StoreNext(R.mem, R.alloc, prev, next)
      m2 == StorePrev(m1, R.alloc, next, prev)
  IN [mem |-> [m2 EXCEPT ![a] = FreedCmd],
      alloc |-> R.alloc \ {a},
      exec_cmds |-> IF R.exec_cmds = a THEN next ELSE R.exec_cmds,
      last_exec_cmd |-> IF R.last_exec_cmd = a THEN prev ELSE R.last_exec_cmd,
      exec_cmds_count |-> R.exec_cmds_count - 1]

\* exec_free on a record that is allocated
FreeLive(R, a) == exec_free(R, a, R.mem[a].prev_cmd, R.mem[a].next_cmd)

SetRegistry(R) ==
  /\ mem' = R.mem
  /\ alloc' = R.alloc
  /\ exec_cmds' = R.exec_cmds
  /\ last_exec_cmd' = R.last_exec_cmd
  /\ exec_cmds_count' = R.exec_cmds_count

\* the record of a call of exec_free and, when the command was neither the
\* head nor the tail, of its number and of the list it was removed from
FreeCall(a) ==
  IF a # exec_cmds /\ a # last_exec_cmd
  THEN [op |-> "exec_free", arg |-> a, dangling |-> FALSE, middle |-> TRUE,
        number |-> mem[a].number, consecutive |-> Consecutive(Numbers),
        increasing |-> Increasing(Numbers)]
  ELSE [op |-> "exec_free", arg |-> a, dangling |-> FALSE, middle |-> FALSE]

\* exec_free (a) called by the command /exec -del on a command of the list
ExecFree(a) ==
  /\ status = "running"
  /\ a \in Live
  /\ SetRegistry(FreeLive(Registry, a))
  /\ call' = FreeCall(a)
  /\ timers' = Orphaned(timers, {a})
  /\ emitted' = <<>>
  /\ UNCHANGED <<debug, purge_delay, buffers, status>>

\* exec_free (a) called again right after exec_free (a): a points to freed
\* memory, so what the call reads from it is indeterminate and free (a) is a
\* double free.  Either the allocator aborts the program, or the call runs
\* with whatever a->prev_cmd and a->next_cmd hold.
ExecFreeAgain(a) ==
  /\ status = "running"
  /\ call.op = "exec_free"
  /\ call.arg = a
  /\ a \notin alloc
  /\ call' = [op |-> "exec_free", arg |-> a, dangling |-> TRUE,
              middle |-> FALSE]
  /\ emitted' = <<>>
  /\ \/ /\ status' = "aborted"
        /\ UNCHANGED <<mem, alloc, exec_cmds, last_exec_cmd, exec_cmds_count>>
     \/ /\ status' = "undefined"
        /\ \E prev \in Ptr, next \in Ptr :
             SetRegistry(exec_free(Registry, a, prev, next))
  /\ UNCHANGED <<timers, debug, purge_delay, buffers>>

\* exec_free_all (): while (exec_cmds) exec_free (exec_cmds)
RECURSIVE exec_free_all(_)
exec_free_all(R) ==
  IF R.exec_cmds = NULL THEN R
  ELSE exec_free_all(FreeLive(R, R.exec_cmds))

ExecFreeAll ==
  /\ status = "running"
  /\ SetRegistry(exec_free_all(Registry))
  /\ call' = [op |-> "exec_free_all"]
  /\ timers' = Orphaned(timers, Live)
  /\ emitted' = <<>>
  /\ UNCHANGED <<debug, purge_delay, buffers, status>>

\* ------------------------------------------------ exec_search_by_id
\* number = strtol (id, &error, 10); if (!error || error[0]) number = -1
ParseId(id) ==
  LET r == Strtol(id) IN IF r.end <= Len(id) THEN -1 ELSE r.value

RECURSIVE SearchFrom(_, _, _)
SearchFrom(ptr, number, id) ==
  IF ptr = NULL THEN NULL
  ELSE IF number >= 0 /\ mem[ptr].number = number THEN ptr
  ELSE IF mem[ptr].name # NullStr /\ mem[ptr].name = id THEN ptr
  ELSE SearchFrom(mem[ptr].next_cmd, number, id)

\* a lookup that tries every number before any name
exec_search_by_id_numbers_first(id) ==
  LET byNumber == SearchFrom(exec_cmds, ParseId(id), NullStr)
  IN IF byNumber # NULL THEN byNumber ELSE SearchFrom(exec_cmds, -1, id)

exec_search_by_id(id) == SearchFrom(exec_cmds, ParseId(id), id)

ExecSearchById(id) ==
  /\ status = "running"
  /\ call' = [op |-> "exec_search_by_id", arg |-> id,
              ret |-> exec_search_by_id(id)]
  /\ emitted' = <<>>
  /\ UNCHANGED <<mem, alloc, exec_cmds, last_exec_cmd, exec_cmds_count,
                 timers, debug, purge_delay, buffers, status>>

\* ------------------------------------------------------------ launch
\* The command /exec: after exec_add it sets the options of the new record,
\* its command and its name, and hooks the process.
DefaultOpts ==
  [name |-> NullStr, detached |-> 0, output_to_buffer |-> 0,
   buffer_full_name |-> NullStr, line_numbers |-> 0, display_rc |-> 0,
   pipe_command |-> NullStr, hsignal |-> NullStr, color |-> "ansi"]

Launch(a, o) ==
  /\ status = "running"
  /\ a \in Live
  /\ mem[a].command = NullStr
  /\ mem' = [mem EXCEPT ![a] =
               [mem[a] EXCEPT !.name = o.name, !.command = <<"c">>,
                  !.hook = 1, !.pid = 1, !.detached = o.detached,
                  !.output_to_buffer = o.output_to_buffer,
                  !.buffer_full_name = o.buffer_full_name,
                  !.line_numbers = o.line_numbers,
                  !.display_rc = o.display_rc,
                  !.pipe_command = o.pipe_command,
                  !.hsignal = o.hsignal, !.color = o.color]]
  /\ call' = [op |-> "launch", arg |-> a]
  /\ emitted' = <<>>
  /\ UNCHANGED <<alloc, exec_cmds, last_exec_cmd, exec_cmds_count, timers,
                 debug, purge_delay, buffers, status>>

\* ------------------------------------------------ exec_concat_output
Text(s) == IF s = NullStr THEN <<>> ELSE s

\* an append that stores the result of realloc before testing it: what was
\* accumulated is lost when realloc fails
exec_concat_output_loses_on_failure(size, output, text, ok) ==
  IF ~ok THEN [size |-> size, output |-> NullStr]
  ELSE [size |-> size + Len(text),
        output |-> SubSeq(Text(output), 1, size) \o text]

\* exec_concat_output (&size, &output, text); ok: realloc succeeded
exec_concat_output(size, output, text, ok) ==
  IF ~ok THEN [size |-> size, output |-> output]
  ELSE [size |-> size + Len(text),
        output |-> SubSeq(Text(output), 1, size) \o text]

\* ------------------------------------------------- exec_decode_color
\* weechat_hook_modifier_exec ("[irc_]color_decode_ansi", "1" or "0", string):
\* the host's translation of the escape "^": kept as a code with "1" ("@" in
\* the IRC dialect, "#" otherwise), removed with "0"
RECURSIVE hook_modifier_exec(_, _, _)
hook_modifier_exec(modifier, keep, string) ==
  IF string = <<>> THEN <<>>
  ELSE (IF Head(string) # "^" THEN <<Head(string)>>
        ELSE IF keep = "0" THEN <<>>
        ELSE IF modifier = "irc_color_decode_ansi" THEN <<"@">>
        ELSE <<"#">>)
       \o hook_modifier_exec(modifier, keep, Tail(string))

exec_decode_color(c, string) ==
  IF string = NullStr THEN NullStr
  ELSE IF c.color = "ansi" THEN string
  ELSE hook_modifier_exec(
         IF c.output_to_buffer # 0 \/ c.pipe_command # NullStr
         THEN "irc_color_decode_ansi" ELSE "color_decode_ansi",
         IF c.color = "decode" THEN "1" ELSE "0",
         string)

\* ----------------------------------------------- exec_display_output
\* strchr (s, '\n'): index of the first line feed of s, 0 if none
RECURSIVE LineFeed(_, _)
LineFeed(s, i) ==
  IF i > Len(s) THEN 0 ELSE IF s[i] = "\n" THEN i ELSE LineFeed(s, i + 1)

IsPrefixAt(s, sub, i) ==
  /\ i + Len(sub) - 1 <= Len(s)
  /\ \A k \in 1 .. Len(sub) : s[i + k - 1] = sub[k]

\* strstr (s, sub) != NULL
Contains(s, sub) == \E i \in 1 .. Len(s) : IsPrefixAt(s, sub, i)

\* a replacement of the first occurrence only
RECURSIVE string_replace_first(_, _, _, _)
string_replace_first(s, sub, rep, i) ==
  IF i > Len(s) THEN <<>>
  ELSE IF IsPrefixAt(s, sub, i)
       THEN rep \o SubSeq(s, i + Len(sub), Len(s))
       ELSE <<s[i]>> \o string_replace_first(s, sub, rep, i + 1)

\* weechat_string_replace (s, sub, rep): every occurrence, left to right
RECURSIVE string_replace(_, _, _, _)
string_replace(s, sub, rep, i) ==
  IF i > Len(s) THEN <<>>
  ELSE IF IsPrefixAt(s, sub, i)
       THEN rep \o string_replace(s, sub, rep, i + Len(sub))
       ELSE <<s[i]>> \o string_replace(s, sub, rep, i + 1)

DollarLine == <<"$", "l", "i", "n", "e">>

Command(buffer, text) == [f |-> "command", buffer |-> buffer, text |-> text]

PrintfTags(buffer, tags, text) ==
  [f |-> "printf_tags", buffer |-> buffer, tags |-> tags, text |-> text]

\* what the body of the loop does with one decoded line
DisplayLine(c, buffer, out, line_nb, line) ==
  IF c.pipe_command # NullStr
  THEN IF Contains(c.pipe_command, DollarLine)
       THEN Command(buffer, string_replace(c.pipe_command, DollarLine, line, 1))
       ELSE Command(buffer, c.pipe_command \o <<" ">> \o line)
  ELSE IF c.output_to_buffer # 0
  THEN IF c.line_numbers # 0
       THEN Command(buffer, IntToStr(line_nb) \o <<".", " ">> \o line)
       ELSE Command(buffer, IF line # <<>> THEN line ELSE <<" ">>)
  ELSE PrintfTags(buffer,
                  <<"exec_", IF out # 0 THEN "stdout" ELSE "stderr",
                    ",exec_cmd_">>
                    \o (IF c.name # NullStr THEN c.name ELSE IntToStr(c.number)),
                  (IF c.line_numbers # 0 THEN IntToStr(line_nb) \o <<"\t">>
                   ELSE <<" ", "\t">>) \o line)

\* the loop without line_nb++
RECURSIVE DisplayLinesSameNumber(_, _, _, _, _)
DisplayLinesSameNumber(c, buffer, out, line_nb, ptr_line) ==
  IF ptr_line = <<>> THEN <<>>
  ELSE LET pos == LineFeed(ptr_line, 1)
           line == IF pos # 0 THEN SubSeq(ptr_line, 1, pos - 1) ELSE ptr_line
           shown == DisplayLine(c, buffer, out, line_nb,
                                exec_decode_color(c, line))
       IN IF pos # 0
          THEN <<shown>> \o DisplayLinesSameNumber(c, buffer, out, line_nb,
                              SubSeq(ptr_line, pos + 1, Len(ptr_line)))
          ELSE <<shown>>

\* the loop without "ignore last empty line"
RECURSIVE DisplayLinesKeepLastEmpty(_, _, _, _, _)
DisplayLinesKeepLastEmpty(c, buffer, out, line_nb, ptr_line) ==
  LET pos == LineFeed(ptr_line, 1)
      line == IF pos # 0 THEN SubSeq(ptr_line, 1, pos - 1) ELSE ptr_line
      shown == DisplayLine(c, buffer, out, line_nb, exec_decode_color(c, line))
  IN IF pos # 0
     THEN <<shown>> \o DisplayLinesKeepLastEmpty(c, buffer, out, line_nb + 1,
                         SubSeq(ptr_line, pos + 1, Len(ptr_line)))
     ELSE <<shown>>

\* the loop over the lines of ptr_line
RECURSIVE DisplayLines(_, _, _, _, _)
DisplayLines(c, buffer, out, line_nb, ptr_line) ==
  IF ptr_line = <<>> THEN <<>>
  ELSE LET pos == LineFeed(ptr_line, 1)
           line == IF pos # 0 THEN SubSeq(ptr_line, 1, pos - 1) ELSE ptr_line
           shown == DisplayLine(c, buffer, out, line_nb,
                                exec_decode_color(c, line))
       IN IF pos # 0
          THEN <<shown>> \o DisplayLines(c, buffer, out, line_nb + 1,
                                         SubSeq(ptr_line, pos + 1, Len(ptr_line)))
          ELSE <<shown>>

\* exec_display_output without the test of the buffer
exec_display_output_any_buffer(c, buffer, out) ==
  LET ptr_output == IF out # 0 THEN c.out ELSE c.err
  IN IF ptr_output = NullStr THEN <<>>
     ELSE DisplayLines(c, buffer, out, 1, ptr_output)

\* exec_display_output (c, buffer, out): the calls it makes, in order
exec_display_output(c, buffer, out) ==
  LET ptr_output == IF out # 0 THEN c.out ELSE c.err
  IN IF ptr_output = NullStr THEN <<>>
     ELSE IF c.output_to_buffer # 0 /\ c.pipe_command = NullStr
             /\ buffer = NullStr
     THEN <<>>
     ELSE DisplayLines(c, buffer, out, 1, ptr_output)

\* -------------------------------------------------- exec_end_command
\* weechat_buffer_search ("==", full_name): the buffer, NullStr if none
buffer_search(full_name) ==
  IF full_name # NullStr /\ full_name \in buffers THEN full_name ELSE NullStr

\* a signal that carries stdout and stderr as captured
HsignalSendCaptured(c) ==
  [f |-> "hsignal_send", signal |-> c.hsignal, command |-> c.command,
   number |-> IntToStr(c.number), name |-> c.name, out |-> c.out,
   err |-> c.err]

HsignalSend(c) ==
  [f |-> "hsignal_send", signal |-> c.hsignal, command |-> c.command,
   number |-> IntToStr(c.number), name |-> c.name,
   out |-> exec_decode_color(c, c.out), err |-> exec_decode_color(c, c.err)]

ReturnCodeLine(c, buffer, return_code) ==
  IF return_code >= 0
  THEN PrintfTags(buffer, <<"exec_rc">>,
                  <<"exec", ": end of command ">> \o IntToStr(c.number)
                    \o <<" (\"">> \o c.command \o <<"\"), return code: ">>
                    \o IntToStr(return_code))
  ELSE PrintfTags(buffer, <<"exec_rc">>,
                  <<"exec", ": unexpected end of command ">>
                    \o IntToStr(c.number) \o <<" (\"">> \o c.command
                    \o <<"\")">>)

\* an interval of max (1, 1000 * purge_delay) milliseconds
TimerIntervalMax == IF 1000 * purge_delay > 1 THEN 1000 * purge_delay ELSE 1

\* the interval of the timer hooked to remove the command (milliseconds)
TimerInterval == 1 + (1000 * purge_delay)

HookTimer(a) ==
  [f |-> "hook_timer", interval |-> TimerInterval, align_second |-> 0,
   max_calls |-> 1, data |-> a]

\* exec_end_command that displays stderr before stdout
EndCommandCallsErrFirst(a, c, return_code) ==
  (IF c.hsignal # NullStr THEN <<HsignalSend(c)>>
   ELSE LET ptr_buffer == buffer_search(c.buffer_full_name)
        IN exec_display_output(c, ptr_buffer, 0)
           \o exec_display_output(c, ptr_buffer, 1)
           \o (IF c.display_rc # 0 /\ c.detached = 0
                  /\ c.output_to_buffer = 0 /\ c.pipe_command = NullStr
               THEN <<ReturnCodeLine(c, ptr_buffer, return_code)>>
               ELSE <<>>))
  \o (IF purge_delay >= 0 THEN <<HookTimer(a)>> ELSE <<>>)

\* the calls exec_end_command (a, return_code) makes on record c, in order
EndCommandCalls(a, c, return_code) ==
  (IF c.hsignal # NullStr THEN <<HsignalSend(c)>>
   ELSE LET ptr_buffer == buffer_search(c.buffer_full_name)
        IN exec_display_output(c, ptr_buffer, 1)
           \o exec_display_output(c, ptr_buffer, 0)
           \o (IF c.display_rc # 0 /\ c.detached = 0
                  /\ c.output_to_buffer = 0 /\ c.pipe_command = NullStr
               THEN <<ReturnCodeLine(c, ptr_buffer, return_code)>>
               ELSE <<>>))
  \o (IF purge_delay >= 0 THEN <<HookTimer(a)>> ELSE <<>>)

\* the record after exec_end_command
Ended(c, return_code) ==
  [c EXCEPT !.hook = NULL, !.pid = 0, !.end_time = 1,
            !.return_code = return_code]

\* --------------------------------------------------- exec_process_cb
DebugLine(c, return_code, out, err) ==
  [f |-> "printf", buffer |-> NullStr, command |-> c.command,
   rc |-> return_code, out_bytes |-> Len(Text(out)),
   err_bytes |-> Len(Text(err))]

\* the record after the chunks out and err (NullStr: none) are appended
Appended(c, out, err, okOut, okErr) ==
  LET o == IF out # NullStr
           THEN exec_concat_output(c.out_size, c.out, out, okOut)
           ELSE [size |-> c.out_size, output |-> c.out]
      e == IF err # NullStr
           THEN exec_concat_output(c.err_size, c.err, err, okErr)
           ELSE [size |-> c.err_size, output |-> c.err]
  IN [c EXCEPT !.out_size = o.size, !.out = o.output,
               !.err_size = e.size, !.err = e.output]

\* exec_process_cb (a, command, return_code, out, err) on a command of the
\* list that has been launched
ProcessCb(a, return_code, out, err, okOut, okErr) ==
  /\ status = "running"
  /\ a \in Live
  /\ mem[a].command # NullStr
  /\ Len(Text(mem[a].out)) + Len(Text(out)) <= MaxOut
  /\ Len(Text(mem[a].err)) + Len(Text(err)) <= MaxOut
  /\ LET dbg == IF debug >= 2
                THEN <<DebugLine(mem[a], return_code, out, err)>> ELSE <<>>
         c == IF return_code = WEECHAT_HOOK_PROCESS_ERROR THEN mem[a]
              ELSE Appended(mem[a], out, err, okOut, okErr)
         rc == IF return_code = WEECHAT_HOOK_PROCESS_ERROR THEN -1
               ELSE return_code
         ends == return_code = WEECHAT_HOOK_PROCESS_ERROR \/ return_code >= 0
     IN /\ (ends /\ purge_delay >= 0)
             => timers[a].fresh + timers[a].stale < MaxTimers
        /\ mem' = [mem EXCEPT ![a] = IF ends THEN Ended(c, rc) ELSE c]
        /\ emitted' = dbg \o (IF ends THEN EndCommandCalls(a, c, rc) ELSE <<>>)
        /\ timers' = IF ends /\ purge_delay >= 0
                     THEN [timers EXCEPT ![a].fresh = @ + 1] ELSE timers
        /\ call' = [op |-> "exec_process_cb", data |-> a,
                    return_code |-> return_code, out |-> out, err |-> err,
                    ok |-> <<okOut, okErr>>, ended |-> mem[a].end_time # 0]
  /\ UNCHANGED <<alloc, exec_cmds, last_exec_cmd, exec_cmds_count, debug,
                 purge_delay, buffers, status>>

\* ---------------------------------------------- exec_timer_delete_cb
\* a purge timer whose data is a fires (stale: the command it was hooked
\* for has been removed since); the callback looks for the address a in
\* the list and frees the command found there
TimerDeleteCb(a, stale) ==
  /\ status = "running"
  /\ IF stale THEN timers[a].stale > 0 ELSE timers[a].fresh > 0
  /\ LET left == IF stale THEN [timers EXCEPT ![a].stale = @ - 1]
                 ELSE [timers EXCEPT ![a].fresh = @ - 1]
     IN IF a \in Live
        THEN /\ SetRegistry(FreeLive(Registry, a))
             /\ timers' = Orphaned(left, {a})
        ELSE /\ UNCHANGED <<mem, alloc, exec_cmds, last_exec_cmd,
                            exec_cmds_count>>
             /\ timers' = left
  /\ call' = [op |-> "exec_timer_delete_cb", data |-> a, stale |-> stale]
  /\ emitted' = <<>>
  /\ UNCHANGED <<debug, purge_delay, buffers, status>>

\* ------------------------------------------------------- specifications
InitWith(delays, debugs) ==
  /\ mem = [a \in Addr |-> FreedCmd]
  /\ alloc = {}
  /\ exec_cmds = NULL
  /\ last_exec_cmd = NULL
  /\ exec_cmds_count = 0
  /\ timers = [a \in Addr |-> NoTimers]
  /\ debug \in debugs
  /\ purge_delay \in delays
  /\ buffers = {<<"b">>}
  /\ emitted = <<>>
  /\ call = NoCall
  /\ status = "running"

Init == InitWith({0}, {0})

\* the list of executed commands: creations and removals
Next ==
  \/ ExecAdd(Addr)
  \/ \E a \in Addr : ExecFree(a)
  \/ ExecFreeAll

Spec == Init /\ [][Next]_vars

\* the lookup: named commands and searches
FindAddr == 1 .. MaxFindAddr

FindNames == {NullStr, <<"1">>, <<"a">>}

FindIds ==
  {<<"0">>, <<"1">>, <<"2">>, <<"a">>, <<>>, <<" ", "1">>, <<"1", "a">>,
   <<"-", "1">>, <<"0", "1">>}

NextFind ==
  \/ ExecAdd(FindAddr)
  \/ \E a \in FindAddr, n \in FindNames :
       Launch(a, [DefaultOpts EXCEPT !.name = n])
  \/ \E a \in FindAddr : ExecFree(a)
  \/ \E id \in FindIds : ExecSearchById(id)

SpecFind == Init /\ [][NextFind]_vars

\* ------------------------------------------------------------ claims
\* C1: after any sequence of exec_add and exec_free on commands of the list,
\* the traversal from exec_cmds along next_cmd is the reverse of the
\* traversal from last_exec_cmd along prev_cmd; the head is NULL iff the
\* tail is NULL, the head has no predecessor and the tail no successor.
C1_ListConsistent ==
  /\ Forward = Reverse(Backward)
  /\ Len(Forward) <= MaxAddr
  /\ \A a \in Live : ~IsFreed(mem, a)
  /\ (exec_cmds = NULL) <=> (last_exec_cmd = NULL)
  /\ exec_cmds # NULL => mem[exec_cmds].prev_cmd = NULL
  /\ last_exec_cmd # NULL => mem[last_exec_cmd].next_cmd = NULL

\* a command between two others has been removed from a list of three or more
C1_Witness ==
  /\ call.op = "exec_free"
  /\ call.middle
  /\ Len(Forward) >= 2

\* C2: no two commands of the list have the same number.
C2_UniqueNumbers ==
  \A a, b \in Live : a # b => mem[a].number # mem[b].number

\* C3: the number exec_add gives is the smallest non-negative integer that
\* is not the number of a command of the list.
C3_SmallestFreeNumber ==
  (call.op = "exec_add" /\ call.ret # NULL)
    => mem[call.ret].number = call.unused

\* exec_add has just run, right after an exec_free of a command that was
\* neither the head nor the tail
AddAfterMiddleFree ==
  /\ call.op = "exec_add"
  /\ call.ret # NULL
  /\ call.freed.op = "exec_free"
  /\ call.freed.middle
  /\ ~call.freed.dangling

\* the new command has the number of the removed one and is the tail, linked
\* after the former tail
GotFreedNumberAtTail ==
  /\ mem[call.ret].number = call.freed.number
  /\ last_exec_cmd = call.ret
  /\ mem[call.ret].next_cmd = NULL
  /\ call.tail # NULL
  /\ mem[call.ret].prev_cmd = call.tail
  /\ mem[call.tail].next_cmd = call.ret

\* C4 as stated: when the numbers increase along the list and a command that
\* is neither head nor tail is removed, the next command created receives
\* the removed command's number and is linked at the tail.
C4_Original ==
  (AddAfterMiddleFree /\ call.freed.increasing) => GotFreedNumberAtTail

\* C4 (amended): when each number of the list exceeds its predecessor's by
\* exactly one and a command that is neither head nor tail is removed, the
\* next command created receives the removed command's number and is linked
\* at the tail; so after creating A, B, C from an empty list, removing B and
\* creating D, D has B's number and follows C.
C4_ReuseAfterMiddleFree ==
  (AddAfterMiddleFree /\ call.freed.consecutive) => GotFreedNumberAtTail

\* A, B, C were created from the empty list, B removed, D created
C4_Witness ==
  /\ AddAfterMiddleFree
  /\ call.freed.consecutive
  /\ call.freed.number = 1
  /\ Numbers = <<0, 2, 1>>

\* the decimal strings of the numbers of the commands of the list
LiveNumberStrings == {IntToStr(mem[a].number) : a \in Live}

\* the first command of the list, from position i on, whose number is n or
\* whose name is id (NULL if none)
RECURSIVE FirstMatch(_, _, _)
FirstMatch(i, n, id) ==
  IF i > Len(Forward) THEN NULL
  ELSE IF mem[Forward[i]].number = n \/ mem[Forward[i]].name = id
       THEN Forward[i]
       ELSE FirstMatch(i + 1, n, id)

SearchedLiveNumber ==
  /\ call.op = "exec_search_by_id"
  /\ call.arg \in LiveNumberStrings

\* C5 as stated: for the decimal string of a listed command's number, the
\* lookup returns a command with that number, whatever the names are.
C5_Original ==
  SearchedLiveNumber
    => (call.ret # NULL /\ IntToStr(mem[call.ret].number) = call.arg)

\* C5 (amended): for the decimal string of a listed command's number, the
\* lookup returns the first command of the list whose number is that number
\* or whose name is that string: the command with that number, unless a
\* command earlier in the list is named by the same digits.
C5_FirstOfNumberOrName ==
  SearchedLiveNumber
    => LET n == CHOOSE k \in 0 .. MaxNumber : IntToStr(k) = call.arg
       IN /\ call.ret # NULL
          /\ call.ret = FirstMatch(1, n, call.arg)
          /\ (\A a \in Live : mem[a].name # call.arg) => mem[call.ret].number = n

\* the lookup of "1" returned a command named "1" whose number is not 1,
\* while another command has number 1
C5_Witness ==
  /\ call.op = "exec_search_by_id"
  /\ call.arg = <<"1">>
  /\ call.ret # NULL
  /\ mem[call.ret].name = <<"1">>
  /\ mem[call.ret].number # 1
  /\ \E a \in Live : mem[a].number = 1

\* the list with a second exec_free of a command just removed
NextFreeTwice ==
  \/ ExecAdd(FindAddr)
  \/ \E a \in FindAddr : ExecFree(a)
  \/ \E a \in FindAddr : ExecFreeAgain(a)

SpecFreeTwice == Init /\ [][NextFreeTwice]_vars

\* running commands: the process callback, the end of a command and the
\* purge timer; the callback may be invoked again after a terminal invocation
RunAddr == 1 .. MaxRunAddr

LF == "\n"

ConsoleOpts == [DefaultOpts EXCEPT !.display_rc = 1]

ReturnCodes == {WEECHAT_HOOK_PROCESS_ERROR, WEECHAT_HOOK_PROCESS_RUNNING, 0}

InitRun == InitWith({-1, 1}, {0, 2})

NextRun ==
  \/ ExecAdd(RunAddr)
  \/ \E a \in RunAddr : Launch(a, ConsoleOpts)
  \/ \E a \in RunAddr, rc \in ReturnCodes, out \in {NullStr, <<"a", LF>>} :
       ProcessCb(a, rc, out, NullStr, TRUE, TRUE)
  \/ \E a \in RunAddr : ExecFree(a)
  \/ ExecFreeAll
  \/ \E a \in RunAddr, stale \in BOOLEAN : TimerDeleteCb(a, stale)

SpecRun == InitRun /\ [][NextRun]_vars

\* end to end: commands displayed in a buffer with line numbers, whose
\* process hook calls back until its terminal invocation and never after;
\* no command is removed by hand, and every timer hooked fires
BuildName == <<"b", "u", "i", "l", "d">>

BufferOpts ==
  [DefaultOpts EXCEPT !.name = BuildName, !.output_to_buffer = 1,
                      !.buffer_full_name = <<"b">>, !.line_numbers = 1]

InitE2E == InitWith({0, 2}, {0})

NextE2E ==
  \/ ExecAdd(RunAddr)
  \/ \E a \in RunAddr : Launch(a, BufferOpts)
  \/ \E a \in RunAddr, rc \in {WEECHAT_HOOK_PROCESS_RUNNING, 0, 1},
        out \in {NullStr, <<"a", LF>>, <<"b", LF>>} :
       /\ a \in Live
       /\ mem[a].hook # NULL
       /\ ProcessCb(a, rc, out, NullStr, TRUE, TRUE)
  \/ \E a \in RunAddr : TimerDeleteCb(a, FALSE)

SpecE2E ==
  /\ InitE2E
  /\ [][NextE2E]_vars
  /\ \A a \in RunAddr : WF_vars(TimerDeleteCb(a, FALSE))

\* C6: a terminal invocation of the process callback for a command that was
\* already ended emits nothing and hooks no further timer.
C6_SecondEndEmitsNothing ==
  (call.op = "exec_process_cb" /\ call.ended
     /\ call.return_code # WEECHAT_HOOK_PROCESS_RUNNING)
    => emitted = <<>>

\* C7: for every command of the list, return_code is the value set at
\* creation iff the command has not been ended.
C7_NotFinishedIffRunning ==
  \A a \in Live : (mem[a].return_code = NotFinished) <=> (mem[a].end_time = 0)

\* C8: a second exec_free of a removed command leaves the head, the tail,
\* the links and exec_cmds_count as they were.
C8_SecondFreeNoOp ==
  [][(call'.op = "exec_free" /\ call'.dangling)
       => UNCHANGED <<mem, exec_cmds, last_exec_cmd, exec_cmds_count>>]_vars

\* C9: when the command a purge timer was hooked for has been removed before
\* the timer fires, the timer callback leaves the list and exec_cmds_count
\* unchanged.
C9_StaleTimerNoOp ==
  [][(call'.op = "exec_timer_delete_cb" /\ call'.stale)
       => UNCHANGED <<mem, alloc, exec_cmds, last_exec_cmd, exec_cmds_count>>]_vars

\* the terminal invocation, with return code 0 and no chunk, of the callback
\* of a command displayed in an existing buffer with line numbers, whose
\* stdout is "a\nb\n" (delivered by earlier invocations) and stderr empty
EndOfAB ==
  /\ call.op = "exec_process_cb"
  /\ call.return_code = 0
  /\ call.out = NullStr
  /\ call.err = NullStr
  /\ ~call.ended
  /\ purge_delay >= 0
  /\ LET c == mem[call.data]
     IN /\ c.out = <<"a", LF, "b", LF>>
        /\ c.err = NullStr
        /\ c.output_to_buffer # 0
        /\ c.line_numbers # 0
        /\ c.pipe_command = NullStr
        /\ c.hsignal = NullStr
        /\ c.buffer_full_name \in buffers

\* the commands submitted by the last handler, in order
Submitted ==
  LET IsCommand(e) == e.f = "command"
  IN [i \in 1 .. Len(SelectSeq(emitted, IsCommand)) |->
        SelectSeq(emitted, IsCommand)[i].text]

\* C10: with stdout delivered as "a\n" then "b\n" by non-terminal
\* invocations and then a terminal invocation with return code 0, for a
\* command displayed in a buffer with line numbers (no pipe, no hsignal, an
\* existing buffer, purge delay >= 0): non-terminal invocations submit
\* nothing, the terminal one submits exactly "1. a" then "2. b", and every
\* ended command is eventually removed from the list.
C10_EndToEnd ==
  /\ []((call.op = "exec_process_cb"
           /\ call.return_code = WEECHAT_HOOK_PROCESS_RUNNING)
          => emitted = <<>>)
  /\ [](EndOfAB
          => /\ Submitted = << <<"1", ".", " ", "a">>, <<"2", ".", " ", "b">> >>
             /\ \A i \in 1 .. Len(emitted) :
                  emitted[i].f \in {"command", "hook_timer"}
             /\ timers[call.data].fresh = 1)
  /\ \A a \in RunAddr :
       (a \in Live /\ mem[a].end_time # 0) ~> (a \notin Live)

C10_Witness ==
  /\ EndOfAB
  /\ mem[call.data].name = BuildName
  /\ Len(Submitted) = 2
  /\ mem[call.data].end_time # 0

\* ------------------------------------------- output of an ended command
\* one command at a time: the process hook delivers stdout and stderr one
\* character at a time, never both in one invocation, until its terminal
\* invocation and never after
MaxText == 3

OneAddr == {1}

NoChunk == <<NullStr, NullStr>>

CharChunks ==
  {NoChunk, << <<"a">>, NullStr >>, << <<LF>>, NullStr >>,
   << NullStr, <<"a">> >>, << NullStr, <<LF>> >>}

\* exec_process_cb called by the hook of a running process
HookedCb(a, return_code, out, err, okOut, okErr) ==
  /\ a \in Live
  /\ mem[a].hook # NULL
  /\ Len(Text(mem[a].out)) + Len(Text(out)) <= MaxText
  /\ Len(Text(mem[a].err)) + Len(Text(err)) <= MaxText
  /\ ProcessCb(a, return_code, out, err, okOut, okErr)

NextOutput(profiles, chunks, rcs) ==
  \/ ExecAdd(OneAddr)
  \/ \E a \in OneAddr, o \in profiles : Launch(a, o)
  \/ \E a \in OneAddr, rc \in rcs, ch \in chunks :
       HookedCb(a, rc, ch[1], ch[2], TRUE, TRUE)

NumberedOpts == [DefaultOpts EXCEPT !.line_numbers = 1]

DisplayProfiles == {DefaultOpts, NumberedOpts, BufferOpts}

NextDisplay ==
  NextOutput(DisplayProfiles, CharChunks, {WEECHAT_HOOK_PROCESS_RUNNING, 0})

SpecDisplay == Init /\ [][NextDisplay]_vars

\* the positions of the line feeds of text t
LineFeeds(t) == {i \in 1 .. Len(t) : t[i] = LF}

\* the k-th smallest element of the set of positions P
Kth(P, k) == CHOOSE p \in P : Cardinality({q \in P : q < p}) = k - 1

\* the fragments of t between line feeds, in order
Split(t) ==
  LET P == LineFeeds(t)
      n == Cardinality(P)
  IN [k \in 1 .. n + 1 |->
        SubSeq(t, IF k = 1 THEN 1 ELSE Kth(P, k - 1) + 1,
                  IF k = n + 1 THEN Len(t) ELSE Kth(P, k) - 1)]

\* the lines of a captured text: its fragments between line feeds, without
\* the empty fragment that follows a trailing line feed; no line for no text
Fragments(text) ==
  LET t == Text(text)
  IN IF t = <<>> THEN <<>>
     ELSE IF t[Len(t)] = LF THEN Split(SubSeq(t, 1, Len(t) - 1))
     ELSE Split(t)

\* the last handler was the first terminal invocation of the process
\* callback of a command
JustEnded ==
  /\ call.op = "exec_process_cb"
  /\ call.return_code # WEECHAT_HOOK_PROCESS_RUNNING
  /\ ~call.ended

\* the texts of the lines the last handler printed with tags of stream s
Printed(s) ==
  LET Of(e) == e.f = "printf_tags" /\ Len(e.tags) >= 2 /\ e.tags[2] = s
      sel == SelectSeq(emitted, Of)
  IN [i \in 1 .. Len(sel) |-> sel[i].text]

\* C11: exec_display_output emits one line per fragment of the captured text
\* between line feeds, in order, except the empty fragment after a trailing
\* line feed; the k-th line of a call carries the number k, from 1 for
\* stdout and again from 1 for stderr.  Printed lines start with "k<tab>"
\* (" <tab>" without line numbers), lines sent to a buffer with "k. ".
C11_OneLinePerFragment ==
  JustEnded =>
    LET c == mem[call.data]
        o == Fragments(c.out)
        e == Fragments(c.err)
    IN IF c.output_to_buffer # 0
       THEN Submitted = [k \in 1 .. Len(o) |-> IntToStr(k) \o <<".", " ">> \o o[k]]
                        \o [k \in 1 .. Len(e) |->
                              IntToStr(k) \o <<".", " ">> \o e[k]]
       ELSE IF c.line_numbers # 0
       THEN /\ Printed("stdout") = [k \in 1 .. Len(o) |->
                                      IntToStr(k) \o <<"\t">> \o o[k]]
            /\ Printed("stderr") = [k \in 1 .. Len(e) |->
                                      IntToStr(k) \o <<"\t">> \o e[k]]
       ELSE /\ Printed("stdout") = [k \in 1 .. Len(o) |-> <<" ", "\t">> \o o[k]]
            /\ Printed("stderr") = [k \in 1 .. Len(e) |-> <<" ", "\t">> \o e[k]]

\* stdout "a\n\n" (an embedded empty line and a trailing line feed) and
\* stderr "a" were printed with line numbers: lines 1, 2 and line 1
C11_Witness ==
  /\ JustEnded
  /\ mem[call.data].out = <<"a", LF, LF>>
  /\ mem[call.data].err = <<"a">>
  /\ mem[call.data].line_numbers # 0
  /\ Printed("stdout") = << <<"1", "\t", "a">>, <<"2", "\t">> >>
  /\ Printed("stderr") = << <<"1", "\t", "a">> >>

\* ---------------------------------------------------- pipe to a command
SayTemplate == <<"/", "s">>

SayLineTemplate == <<"/", "s", " ">> \o DollarLine

TwiceTemplate == DollarLine \o <<"+">> \o DollarLine

NoTokenTemplate == <<"$", "l", "i", "n">>

PipeTemplates == {SayTemplate, SayLineTemplate, TwiceTemplate, NoTokenTemplate}

PipeProfiles ==
  {[DefaultOpts EXCEPT !.pipe_command = t, !.display_rc = 1] : t \in PipeTemplates}
    \cup {[BufferOpts EXCEPT !.pipe_command = SayTemplate]}

NextPipe ==
  NextOutput(PipeProfiles, CharChunks, {WEECHAT_HOOK_PROCESS_RUNNING, 0})

SpecPipe == Init /\ [][NextPipe]_vars

\* the positions of template t where the token $line starts
TokenAt(t) ==
  {i \in 1 .. Len(t) - (Len(DollarLine) - 1) :
     SubSeq(t, i, i + Len(DollarLine) - 1) = DollarLine}

\* template t from its k-th piece on, with line in place of each token
RECURSIVE FromPiece(_, _, _)
FromPiece(t, k, line) ==
  LET P == TokenAt(t)
      n == Cardinality(P)
      first == IF k = 1 THEN 1 ELSE Kth(P, k - 1) + Len(DollarLine)
  IN IF k = n + 1 THEN SubSeq(t, first, Len(t))
     ELSE SubSeq(t, first, Kth(P, k) - 1) \o line \o FromPiece(t, k + 1, line)

\* the command the claim expects for template t and one line
Piped(t, line) ==
  IF TokenAt(t) # {} THEN FromPiece(t, 1, line) ELSE t \o <<" ">> \o line

\* C12: for a command piped to a template, the end of the command submits
\* exactly one command per line of stdout then of stderr, in order, and
\* prints nothing: the template with the line in place of every $line, or,
\* without any $line, the template, one space and the line.
C12_OneCommandPerLine ==
  (JustEnded /\ mem[call.data].pipe_command # NullStr
     /\ mem[call.data].hsignal = NullStr)
    => LET c == mem[call.data]
           lines == Fragments(c.out) \o Fragments(c.err)
       IN /\ Submitted = [k \in 1 .. Len(lines) |-> Piped(c.pipe_command, lines[k])]
          /\ \A i \in 1 .. Len(emitted) :
               emitted[i].f \in {"command", "hook_timer"}

\* stdout "a\n" and stderr "aa" piped to "$line+$line": two commands
C12_Witness ==
  /\ JustEnded
  /\ mem[call.data].pipe_command = TwiceTemplate
  /\ mem[call.data].out = <<"a", LF>>
  /\ mem[call.data].err = <<"a", "a">>
  /\ Submitted = << <<"a", "+", "a">>, <<"a", "a", "+", "a", "a">> >>

\* C13: every invocation of the process callback, the one that reports
\* WEECHAT_HOOK_PROCESS_ERROR included, appends the stdout chunk and the
\* stderr chunk it delivers before the command is ended, so a terminal
\* invocation prints the lines of the stdout captured so far followed by
\* its own chunk.
C13_ChunksAppendedBeforeEnd ==
  [][call'.op = "exec_process_cb"
       => LET a == call'.data
              out == Text(mem[a].out) \o Text(call'.out)
          IN /\ Text(mem'[a].out) = out
             /\ Text(mem'[a].err) = Text(mem[a].err) \o Text(call'.err)
             /\ call'.return_code # WEECHAT_HOOK_PROCESS_RUNNING
                  => Printed("stdout")'
                       = [k \in 1 .. Len(Fragments(out)) |->
                            <<" ", "\t">> \o Fragments(out)[k]]]_vars

\* the value of s read as a decimal numeral (spaces, an optional sign, then
\* digits up to the end of s); -1 when s is not one
Numeral(s) ==
  LET D == {d \in 1 .. Len(s) : \A k \in d .. Len(s) : IsDigit(s[k])}
  IN IF D = {} THEN -1
     ELSE LET d == CHOOSE x \in D : \A y \in D : x <= y
              signed == d > 1 /\ s[d - 1] \in {"-", "+"}
              blanks == IF signed THEN d - 2 ELSE d - 1
              v == ReadDigits(s, d, 0).value
          IN IF \E k \in 1 .. blanks : s[k] # " " THEN -1
             ELSE IF signed /\ s[d - 1] = "-" THEN 0 - v
             ELSE v

\* C14: exec_search_by_id (s) returns the first command of the list whose
\* number is the non-negative integer s reads as, or whose name is s; it
\* returns NULL exactly when no command of the list passes either test, as
\* for every s that is neither a numeral nor a name.
C14_FirstMatchOrAbsent ==
  call.op = "exec_search_by_id"
    => call.ret = FirstMatch(1, Numeral(call.arg), call.arg)

\* ------------------------------------------ the purge of ended commands
\* two commands at most; the option exec.command.purge_delay may be set at
\* any time; commands end, are removed by hand, by their timer or at exit
TwoAddr == {1, 2}

PurgeDelays == {-1, 0, 2}

\* /set exec.command.purge_delay d
SetPurgeDelay(d) ==
  /\ status = "running"
  /\ d # purge_delay
  /\ purge_delay' = d
  /\ call' = [op |-> "config_set"]
  /\ emitted' = <<>>
  /\ UNCHANGED <<mem, alloc, exec_cmds, last_exec_cmd, exec_cmds_count,
                 timers, debug, buffers, status>>

NextPurge ==
  \/ ExecAdd(TwoAddr)
  \/ \E a \in TwoAddr : Launch(a, DefaultOpts)
  \/ \E a \in TwoAddr, rc \in {WEECHAT_HOOK_PROCESS_ERROR, 0} :
       HookedCb(a, rc, NullStr, NullStr, TRUE, TRUE)
  \/ \E a \in TwoAddr : ExecFree(a)
  \/ ExecFreeAll
  \/ \E a \in TwoAddr, stale \in BOOLEAN : TimerDeleteCb(a, stale)
  \/ \E d \in PurgeDelays : SetPurgeDelay(d)

SpecPurge == Init /\ [][NextPurge]_vars

\* the timers the last handler hooked
Hooked ==
  LET IsTimer(e) == e.f = "hook_timer" IN SelectSeq(emitted, IsTimer)

\* an ended command that has no timer of its own leaves the list only by
\* exec_free called by hand, at exit, or (stale) by a timer hooked earlier
\* with the same address for a command removed since
RemovedWithoutOwnTimer(byStaleTimer) ==
  \A a \in Live :
    (mem[a].end_time # 0 /\ timers[a].fresh = 0 /\ a \notin Live')
      => \/ call'.op \in {"exec_free", "exec_free_all"}
         \/ /\ byStaleTimer
            /\ call'.op = "exec_timer_delete_cb"
            /\ call'.data = a
            /\ call'.stale

\* what the first terminal invocation of a command's callback hooks: no
\* timer with a negative purge delay, else one timer of the given interval,
\* called once, for that command
TimerAtEnd(interval) ==
  JustEnded
    => IF purge_delay < 0
       THEN Hooked = <<>> /\ timers[call.data].fresh = 0
       ELSE /\ Hooked = <<[f |-> "hook_timer", interval |-> interval,
                           align_second |-> 0, max_calls |-> 1,
                           data |-> call.data]>>
            /\ timers[call.data].fresh = 1

\* C15 as stated: the interval is max (1, 1000 * d) milliseconds, and with a
\* negative d the ended command leaves the list only by hand or at exit.
C15_Original ==
  /\ [](TimerAtEnd(IF 1000 * purge_delay > 1 THEN 1000 * purge_delay ELSE 1))
  /\ [][RemovedWithoutOwnTimer(FALSE)]_vars

\* C15 (amended): when a command ends with purge delay d >= 0 (seconds),
\* exactly one timer is hooked for it, called once, after 1 + 1000 * d
\* milliseconds; with d < 0 no timer is hooked, and the ended command then
\* leaves the list only by hand, at exit, or by a timer hooked earlier with
\* the same address.
C15_TimerAfterOnePlusDelay ==
  /\ [](TimerAtEnd(1 + (1000 * purge_delay)))
  /\ [][RemovedWithoutOwnTimer(TRUE)]_vars

\* a command has just ended with a purge delay of 2 seconds
C15_Witness ==
  /\ JustEnded
  /\ purge_delay = 2
  /\ Len(Hooked) = 1
  /\ Hooked[1].interval = 2001
  /\ Hooked[1].data = call.data

\* C20: in every state reached by exec_add, exec_free by hand, purge timers
\* and exec_free_all, exec_cmds_count is the number of commands reachable
\* from exec_cmds and is not negative; after exec_free_all it is 0 and
\* exec_cmds and last_exec_cmd are NULL.
C20_CountIsLength ==
  /\ exec_cmds_count = Len(Forward)
  /\ exec_cmds_count = Cardinality(Live)
  /\ exec_cmds_count >= 0
  /\ call.op = "exec_free_all"
       => (exec_cmds_count = 0 /\ exec_cmds = NULL /\ last_exec_cmd = NULL)

\* a timer left by a command removed by hand has fired and removed one of
\* two commands
C20_Witness ==
  /\ call.op = "exec_timer_delete_cb"
  /\ call.stale
  /\ exec_cmds_count = 1
  /\ Len(Forward) = 1
  /\ call.data \notin Live

\* ------------------------------------------------ the end of a command
\* the buffer b is closed while commands run
BufferClose(b) ==
  /\ status = "running"
  /\ b \in buffers
  /\ buffers' = buffers \ {b}
  /\ call' = [op |-> "buffer_close"]
  /\ emitted' = <<>>
  /\ UNCHANGED <<mem, alloc, exec_cmds, last_exec_cmd, exec_cmds_count,
                 timers, debug, purge_delay, status>>

EndChunks ==
  {NoChunk, << <<"a", LF>>, NullStr >>, << NullStr, <<"e", LF>> >>,
   << <<"a">>, <<"e">> >>}

EndProfiles ==
  {DefaultOpts, ConsoleOpts, [ConsoleOpts EXCEPT !.detached = 1],
   [BufferOpts EXCEPT !.display_rc = 1],
   [ConsoleOpts EXCEPT !.pipe_command = SayTemplate]}

EndCodes == {WEECHAT_HOOK_PROCESS_RUNNING, WEECHAT_HOOK_PROCESS_ERROR, 0}

NextEnd ==
  \/ NextOutput(EndProfiles, EndChunks, EndCodes)
  \/ \E b \in buffers : BufferClose(b)

SpecEnd == Init /\ [][NextEnd]_vars

\* the return-code lines the last handler printed
Reports ==
  LET IsReport(e) == e.f = "printf_tags" /\ e.tags = <<"exec_rc">>
  IN SelectSeq(emitted, IsReport)

\* the place of a call in the order of the claim: a line of stdout, a line
\* of stderr, the return code, the timer (0: a command, whose stream the
\* call does not tell)
Rank(e) ==
  IF e.f = "hook_timer" THEN 4
  ELSE IF e.f = "printf_tags" /\ e.tags = <<"exec_rc">> THEN 3
  ELSE IF e.f = "printf_tags" /\ e.tags[2] = "stderr" THEN 2
  ELSE IF e.f = "printf_tags" /\ e.tags[2] = "stdout" THEN 1
  ELSE 0

EndsWith(s, t) ==
  Len(t) <= Len(s) /\ SubSeq(s, Len(s) - Len(t) + 1, Len(s)) = t

\* C17: the end of a command without hsignal emits the lines of stdout,
\* then the lines of stderr, then at most one return-code line; that line
\* is printed iff display_rc is set and the command is not detached, not
\* sent to a buffer and not piped; it is the "unexpected end" line iff the
\* invocation reported WEECHAT_HOOK_PROCESS_ERROR, else the line with the
\* return code.
C17_OutErrThenReturnCode ==
  (JustEnded /\ mem[call.data].hsignal = NullStr)
    => LET c == mem[call.data]
           o == Fragments(c.out)
           e == Fragments(c.err)
           lines == o \o e
           console == c.output_to_buffer = 0 /\ c.pipe_command = NullStr
       IN /\ \A i, j \in 1 .. Len(emitted) :
               i < j => Rank(emitted[i]) <= Rank(emitted[j])
          /\ IF console
             THEN /\ Len(Printed("stdout")) = Len(o)
                  /\ Len(Printed("stderr")) = Len(e)
                  /\ \A k \in 1 .. Len(o) : EndsWith(Printed("stdout")[k], o[k])
                  /\ \A k \in 1 .. Len(e) : EndsWith(Printed("stderr")[k], e[k])
                  /\ Submitted = <<>>
             ELSE /\ Printed("stdout") = <<>>
                  /\ Printed("stderr") = <<>>
                  /\ (c.pipe_command # NullStr \/ c.buffer_full_name \in buffers)
                       => /\ Len(Submitted) = Len(lines)
                          /\ \A k \in 1 .. Len(lines) :
                               EndsWith(Submitted[k], lines[k])
          /\ Len(Reports) <= 1
          /\ Len(Reports) = 1
               <=> (c.display_rc # 0 /\ c.detached = 0 /\ console)
          /\ Len(Reports) = 1
               => LET text == Reports[1].text
                  IN IF call.return_code = WEECHAT_HOOK_PROCESS_ERROR
                     THEN text[2] = ": unexpected end of command "
                     ELSE /\ text[2] = ": end of command "
                          /\ EndsWith(text, <<"\"), return code: ">>
                                           \o IntToStr(call.return_code))

\* stdout "a\n" and stderr "e\n" were printed, then the line of an
\* unexpected end
C17_Witness ==
  /\ JustEnded
  /\ call.return_code = WEECHAT_HOOK_PROCESS_ERROR
  /\ mem[call.data].out = <<"a", LF>>
  /\ mem[call.data].err = <<"e", LF>>
  /\ Len(emitted) = 4
  /\ Rank(emitted[1]) = 1
  /\ Rank(emitted[2]) = 2
  /\ Rank(emitted[3]) = 3

\* C18: when the buffer of a command sent to a buffer (not piped, no
\* hsignal) does not exist at the end of the command, nothing is submitted
\* and nothing is printed for stdout or for stderr; the command is ended
\* all the same and its removal is scheduled.
C18_MissingBufferDropsOutput ==
  (JustEnded /\ mem[call.data].hsignal = NullStr
     /\ mem[call.data].output_to_buffer # 0
     /\ mem[call.data].pipe_command = NullStr
     /\ mem[call.data].buffer_full_name \notin buffers)
    => /\ \A i \in 1 .. Len(emitted) : emitted[i].f = "hook_timer"
       /\ mem[call.data].end_time # 0
       /\ mem[call.data].hook = NULL
       /\ mem[call.data].return_code
            = (IF call.return_code = WEECHAT_HOOK_PROCESS_ERROR THEN -1
               ELSE call.return_code)
       /\ purge_delay >= 0
            => (Len(Hooked) = 1 /\ Hooked[1].data = call.data
                /\ timers[call.data].fresh = 1)

\* a command with stdout "a\n" and stderr "e\n" ended after its buffer
\* was closed
C18_Witness ==
  /\ JustEnded
  /\ mem[call.data].output_to_buffer # 0
  /\ mem[call.data].buffer_full_name \notin buffers
  /\ mem[call.data].out = <<"a", LF>>
  /\ mem[call.data].err = <<"e", LF>>
  /\ Len(emitted) = 1
  /\ mem[call.data].end_time # 0

\* ------------------------------------------------ commands with hsignal
HsignalName == <<"h">>

ExportChunks ==
  {NoChunk, << <<"^">>, NullStr >>, << <<"a">>, NullStr >>,
   << <<LF>>, NullStr >>, << NullStr, <<"^">> >>}

ExportProfiles ==
  {[ConsoleOpts EXCEPT !.hsignal = HsignalName, !.color = "strip"],
   [ConsoleOpts EXCEPT !.hsignal = HsignalName, !.color = "decode",
                       !.line_numbers = 1],
   [BufferOpts EXCEPT !.hsignal = HsignalName, !.display_rc = 1,
                      !.color = "decode"],
   [ConsoleOpts EXCEPT !.hsignal = HsignalName,
                       !.pipe_command = SayLineTemplate]}

InitExport == InitWith({-1, 0}, {0, 2})

NextExport == NextOutput(ExportProfiles, ExportChunks, EndCodes)

SpecExport == InitExport /\ [][NextExport]_vars

\* a captured text after the color policy of command c: as captured with
\* "ansi", without its escapes with "strip", with each escape turned into a
\* color code with "decode" (of the IRC dialect for a command sent to a
\* buffer or piped)
Decoded(c, text) ==
  LET IsText(ch) == ch # "^"
      code == IF c.output_to_buffer # 0 \/ c.pipe_command # NullStr
              THEN "@" ELSE "#"
  IN IF text = NullStr THEN NullStr
     ELSE IF c.color = "strip" THEN SelectSeq(text, IsText)
     ELSE IF c.color = "decode"
          THEN [i \in 1 .. Len(text) |-> IF text[i] = "^" THEN code ELSE text[i]]
     ELSE text

\* what the last handler emitted, without the trace of exec_process_cb
\* (debug >= 2) and the timer
EmittedAtEnd ==
  LET Counts(e) == e.f \notin {"printf", "hook_timer"}
  IN SelectSeq(emitted, Counts)

\* C16: the end of a command with hsignal sends exactly one signal, with the
\* command, the number, the name and the decoded stdout and stderr, and
\* emits nothing else: no line printed, no command submitted, no
\* return-code line, whatever the other options of the command are.
C16_OnlyTheSignal ==
  (JustEnded /\ mem[call.data].hsignal # NullStr)
    => LET c == mem[call.data]
       IN EmittedAtEnd
            = <<[f |-> "hsignal_send", signal |-> c.hsignal,
                 command |-> c.command, number |-> IntToStr(c.number),
                 name |-> c.name, out |-> Decoded(c, c.out),
                 err |-> Decoded(c, c.err)]>>

\* a command sent to a buffer, with return-code line asked for, ended with
\* stdout "^a\n" and stderr "^": the signal carries "@a\n" and "@"
C16_Witness ==
  /\ JustEnded
  /\ mem[call.data].hsignal = HsignalName
  /\ mem[call.data].output_to_buffer # 0
  /\ mem[call.data].display_rc # 0
  /\ mem[call.data].out = <<"^", "a", LF>>
  /\ mem[call.data].err = <<"^">>
  /\ Len(EmittedAtEnd) = 1
  /\ EmittedAtEnd[1].out = <<"@", "a", LF>>
  /\ EmittedAtEnd[1].err = <<"@">>

\* -------------------------------------------------- the output buffers
\* chunks of stdout and stderr, some empty, appended by invocations of the
\* process callback in which realloc succeeds or fails
ConcatChunks ==
  {NoChunk, << <<>>, NullStr >>, << <<"a">>, NullStr >>,
   << <<"b">>, NullStr >>, << NullStr, <<>> >>, << NullStr, <<"e">> >>,
   << <<"a">>, <<"e">> >>}

NextConcat ==
  \/ ExecAdd(OneAddr)
  \/ \E a \in OneAddr : Launch(a, DefaultOpts)
  \/ \E a \in OneAddr, rc \in {WEECHAT_HOOK_PROCESS_RUNNING, 0},
        ch \in ConcatChunks, okOut \in BOOLEAN, okErr \in BOOLEAN :
       HookedCb(a, rc, ch[1], ch[2], okOut, okErr)

SpecConcat == Init /\ [][NextConcat]_vars

\* one call exec_concat_output (&size, &output, text) took the buffer from
\* (size, output) to (size2, output2): with realloc successful, to the
\* content followed by text; with realloc failed, nowhere
AppendStep(size, output, size2, output2, text, ok) ==
  /\ ok => /\ Text(output2) = Text(output) \o text
           /\ size2 = size + Len(text)
  /\ ~ok => (output2 = output /\ size2 = size)
  /\ text = <<>> => (Text(output2) = Text(output) /\ size2 = size)

\* C19: after any sequence of calls of exec_concat_output on a buffer,
\* the content is the chunks whose append succeeded, in order of arrival,
\* and the size is the length of the content: each successful call appends
\* its chunk, an empty chunk changes neither content nor size, and a call
\* in which realloc fails changes neither.
C19_AppendsInOrder ==
  /\ [](\A a \in Live : /\ mem[a].out_size = Len(Text(mem[a].out))
                        /\ mem[a].err_size = Len(Text(mem[a].err)))
  /\ [][(call'.op = "exec_process_cb"
          /\ call'.return_code # WEECHAT_HOOK_PROCESS_ERROR)
         => LET c == mem[call'.data]
                d == mem'[call'.data]
            IN /\ IF call'.out = NullStr
                  THEN d.out = c.out /\ d.out_size = c.out_size
                  ELSE AppendStep(c.out_size, c.out, d.out_size, d.out,
                                  call'.out, call'.ok[1])
               /\ IF call'.err = NullStr
                  THEN d.err = c.err /\ d.err_size = c.err_size
                  ELSE AppendStep(c.err_size, c.err, d.err_size, d.err,
                                  call'.err, call'.ok[2])]_vars

\* stdout holds "a", appended earlier, after an append of "b" in which
\* realloc failed
C19_Witness ==
  /\ call.op = "exec_process_cb"
  /\ call.out = <<"b">>
  /\ ~call.ok[1]
  /\ mem[call.data].out = <<"a">>
  /\ mem[call.data].out_size = 1

\* C21: a purge timer removes only the command it was hooked for: when
\* that command was removed by hand before the timer fires, every command
\* created since, ended or not, also one whose record has the address of
\* the removed record, is still in the list after the timer has fired.
C21_TimerRemovesOnlyItsJob ==
  [][call'.op = "exec_timer_delete_cb"
       => \A a \in Live :
            a \notin Live' => (a = call'.data /\ ~call'.stale)]_vars

====
